---- MODULE Spec2Model ----
(***************************************************************************)
(* A model of the MQTT v5 decoding core of rust-mqtt: the cursor-based     *)
(* BuffReader (src/utils/buffer_reader.rs) and the CONNECT and CONNACK     *)
(* packet decoders (src/packet/control_packet.rs, connack_packet.rs).      *)
(*                                                                         *)
(* Bytes are naturals 0..255.  Buffer offsets are 0-based as in the Rust   *)
(* source; the byte at offset i of a buffer b is b[i + 1].  A Rust panic   *)
(* (an index or slice out of range, an unwrap of an Err) aborts the run:   *)
(* the state records it and no further operation is taken.                 *)
(***************************************************************************)
EXTENDS Integers, Sequences, FiniteSets, TLC

VARIABLES
    buffer,     \* BuffReader.buffer: the borrowed input bytes
    position,   \* BuffReader.position: the cursor
    entry,      \* the operation the caller runs: "reader" or a decoder's name
    pc,         \* where the caller is: "idle", a decoder step, "done", "panic"
    last,       \* the outcome of the most recent BuffReader read
    reach,      \* one past the highest buffer offset any read has asked for
    pkt,        \* the packet being filled (ControlPacket / ConnackPacket fields)
    x,          \* the running byte count of the property loop in progress
    declared,   \* the declared length that loop compares the count with
    log,        \* the fields the decoder has read so far, in order
    failed      \* whether a Property::decode of this decode has returned Err

vars == <<buffer, position, entry, pc, last, reach, pkt, x, declared, log, failed>>

(***************************************************************************)
(* Bounds of the model.                                                    *)
(***************************************************************************)
MaxLen == 5
MaxTail == 6
MaxLoopTail == 4

(***************************************************************************)
(* Arithmetic helpers.                                                     *)
(***************************************************************************)
Max(a, b) == IF a >= b THEN a ELSE b
Min(a, b) == IF a <= b THEN a ELSE b

RECURSIVE BitAnd(_, _)
BitAnd(a, b) ==
    IF a = 0 \/ b = 0 THEN 0
    ELSE (a % 2) * (b % 2) + 2 * BitAnd(a \div 2, b \div 2)

\* The byte at 0-based offset i.
At(buf, i) == buf[i + 1]

\* The bytes at offsets from .. to-1.
Slice(buf, from, to) == [k \in 1..(to - from) |-> buf[from + k]]

(***************************************************************************)
(* core::str::from_utf8: whether a byte sequence is well-formed UTF-8.     *)
(***************************************************************************)
IsCont(b) == b >= 128 /\ b <= 191

RECURSIVE ValidUtf8From(_, _)
ValidUtf8From(s, i) ==
    IF i > Len(s) THEN TRUE
    ELSE LET b == s[i]
             has(n) == i + n <= Len(s)
         IN  IF b <= 127 THEN ValidUtf8From(s, i + 1)
             ELSE IF b >= 194 /\ b <= 223
                  THEN has(1) /\ IsCont(s[i + 1]) /\ ValidUtf8From(s, i + 2)
             ELSE IF b >= 224 /\ b <= 239
                  THEN /\ has(2)
                       /\ IsCont(s[i + 1]) /\ IsCont(s[i + 2])
                       /\ (b = 224 => s[i + 1] >= 160)
                       /\ (b = 237 => s[i + 1] <= 159)
                       /\ ValidUtf8From(s, i + 3)
             ELSE IF b >= 240 /\ b <= 244
                  THEN /\ has(3)
                       /\ IsCont(s[i + 1]) /\ IsCont(s[i + 2]) /\ IsCont(s[i + 3])
                       /\ (b = 240 => s[i + 1] >= 144)
                       /\ (b = 244 => s[i + 1] <= 143)
                       /\ ValidUtf8From(s, i + 4)
             ELSE FALSE

from_utf8_ok(s) == ValidUtf8From(s, 1)

(***************************************************************************)
(* The result of one BuffReader read.                                      *)
(*   res   "Ok", "Err" (an Err(ParseError) returned) or "Panic"            *)
(*   err   the ParseError kind of an Err, "" otherwise                     *)
(*   pos   the cursor after the call                                       *)
(*   val   the integer read; the declared length of a view                 *)
(*   wide  a u32 read, as its two 16-bit halves <<high, low>> (the         *)
(*         integers of TLC are 32-bit signed)                              *)
(*   views the byte ranges <<from, to>> (to exclusive) of returned views   *)
(*   hi    one past the highest offset the call asked the buffer for       *)
(***************************************************************************)
Res(res, err, pos, val, views, hi) ==
    [res |-> res, err |-> err, pos |-> pos, val |-> val, wide |-> <<0, 0>>,
     views |-> views, hi |-> hi]

\* BuffReader::increment_position
increment_position(pos, increment) == pos + increment

\* VariableByteIntegerDecoder::decode on the four bytes handed to it: 7 data
\* bits per byte, least significant group first, bit 7 the continuation flag;
\* a fourth byte with the continuation flag set is malformed.
VarIntDecode(b) ==
    IF b[1] < 128 THEN [ok |-> TRUE, val |-> b[1]]
    ELSE IF b[2] < 128 THEN [ok |-> TRUE, val |-> (b[1] % 128) + 128 * b[2]]
    ELSE IF b[3] < 128
         THEN [ok |-> TRUE, val |-> (b[1] % 128) + 128 * (b[2] % 128) + 16384 * b[3]]
    ELSE IF b[4] < 128
         THEN [ok |-> TRUE,
               val |-> (b[1] % 128) + 128 * (b[2] % 128) + 16384 * (b[3] % 128)
                       + 2097152 * b[4]]
    ELSE [ok |-> FALSE, val |-> 0]

\* The length the reader derives from the continuation bits of the window.
VarIntWindowLen(b) ==
    IF BitAnd(b[1], 128) = 1
    THEN IF BitAnd(b[2], 128) = 1
         THEN IF BitAnd(b[3], 128) = 1 THEN 4 ELSE 3
         ELSE 2
    ELSE 1

\* BuffReader::read_variable_byte_int
read_variable_byte_int(buf, pos) ==
    IF pos + 3 >= Len(buf)
    THEN \* one of the four index expressions is out of range
         Res("Panic", "", pos, 0, <<>>, Max(pos, Len(buf)) + 1)
    ELSE LET b == <<At(buf, pos), At(buf, pos + 1), At(buf, pos + 2), At(buf, pos + 3)>>
             len == VarIntWindowLen(b)
             d == VarIntDecode(b)
             np == increment_position(pos, len)
         IN  IF d.ok THEN Res("Ok", "", np, d.val, <<>>, pos + 4)
             ELSE Res("Err", "VariableByteIntegerError", np, 0, <<>>, pos + 4)

\* BuffReader::read_u32
read_u32(buf, pos) ==
    IF pos + 4 > Len(buf)
    THEN Res("Panic", "", pos, 0, <<>>, pos + 4)
    ELSE [Res("Ok", "", increment_position(pos, 4), 0, <<>>, pos + 4)
            EXCEPT !.wide = <<At(buf, pos) * 256 + At(buf, pos + 1),
                              At(buf, pos + 2) * 256 + At(buf, pos + 3)>>]

\* read_u16 with the cursor moved before the bytes are looked at: a short
\* buffer is reported, but the cursor has already passed its end.
read_u16_advance_first(buf, pos) ==
    IF pos + 2 > Len(buf)
    THEN Res("Err", "IndexOutOfBounce", increment_position(pos, 2), 0, <<>>, pos + 2)
    ELSE Res("Ok", "", increment_position(pos, 2),
             At(buf, pos) * 256 + At(buf, pos + 1), <<>>, pos + 2)

\* BuffReader::read_u16
read_u16(buf, pos) ==
    IF pos + 2 > Len(buf)
    THEN Res("Panic", "", pos, 0, <<>>, pos + 2)
    ELSE Res("Ok", "", increment_position(pos, 2),
             At(buf, pos) * 256 + At(buf, pos + 1), <<>>, pos + 2)

\* read_u8 with a bounds check: at the end of the buffer it reports
\* IndexOutOfBounce and leaves the cursor where it was.
read_u8_checked(buf, pos) ==
    IF pos >= Len(buf)
    THEN Res("Err", "IndexOutOfBounce", pos, 0, <<>>, pos)
    ELSE Res("Ok", "", increment_position(pos, 1), At(buf, pos), <<>>, pos + 1)

\* BuffReader::read_u8
read_u8(buf, pos) ==
    IF pos >= Len(buf)
    THEN Res("Panic", "", pos, 0, <<>>, pos + 1)
    ELSE Res("Ok", "", increment_position(pos, 1), At(buf, pos), <<>>, pos + 1)

\* BuffReader::read_string
read_string(buf, pos) ==
    LET len == read_u16(buf, pos)
    IN  IF len.res # "Ok" THEN len
        ELSE LET len_res == len.val
                 p == len.pos
             IN  IF p + len_res > Len(buf)
                 THEN Res("Panic", "", p, 0, <<>>, p + len_res)
                 ELSE IF ~from_utf8_ok(Slice(buf, p, p + len_res))
                 THEN Res("Err", "Utf8Error", p, 0, <<>>, p + len_res)
                 ELSE Res("Ok", "", increment_position(p, len_res), len_res,
                          <<<<p, p + len_res>>>>, p + len_res)

\* BuffReader::read_binary
read_binary(buf, pos) ==
    LET len == read_u16(buf, pos)
    IN  IF len.res # "Ok" THEN len
        ELSE LET len_res == len.val
                 p == len.pos
             IN  IF p + len_res > Len(buf)
                 THEN Res("Panic", "", p, 0, <<>>, p + len_res)
                 ELSE Res("Ok", "", p, len_res, <<<<p, p + len_res>>>>, p + len_res)

\* BuffReader::read_string_pair
read_string_pair(buf, pos) ==
    LET name == read_string(buf, pos)
    IN  IF name.res # "Ok" THEN name
        ELSE LET value == read_string(buf, name.pos)
             IN  IF value.res # "Ok"
                 THEN [value EXCEPT !.hi = Max(name.hi, value.hi)]
                 ELSE Res("Ok", "", value.pos, name.val + value.val,
                          name.views \o value.views, Max(name.hi, value.hi))

(***************************************************************************)
(* Encoded sizes (buffer_reader.rs) and the packet type discriminator.     *)
(***************************************************************************)
\* EncodedString::len and BinaryData::len: a u16 sum.
EncodedString_len(len) == (len + 2) % 65536
BinaryData_len(len) == (len + 2) % 65536

\* StringPair::len
StringPair_len(name_len, value_len) ==
    (EncodedString_len(name_len) + EncodedString_len(value_len)) % 65536

\* EncodedString::new and BinaryData::new: the view's byte length and the len
\* field; from is the view's offset in the input buffer, -1 for a static view.
EncodedString_new == [view_len |-> 0, len |-> 0, from |-> -1]
BinaryData_new == [view_len |-> 1, len |-> 0, from |-> -1]

\* The view record of a string or binary read that returned Ok.
ViewOf(r) ==
    [view_len |-> r.views[1][2] - r.views[1][1], len |-> r.val, from |-> r.views[1][1]]

\* PacketType::from: the packet kind is the fixed header's high nibble.
PacketType_from(fixed_header) == fixed_header \div 16
Connect == 1
Connack == 2
Publish == 3

(***************************************************************************)
(* Property::decode and Property::len.  The value type of each MQTT v5     *)
(* property identifier; "none" for an identifier that is not a property.   *)
(***************************************************************************)
PropertyKind(id) ==
    IF id \in {1, 23, 25, 36, 37, 40, 41, 42} THEN "byte"
    ELSE IF id \in {19, 33, 34, 35} THEN "u16"
    ELSE IF id \in {2, 17, 24, 39} THEN "u32"
    ELSE IF id = 11 THEN "varint"
    ELSE IF id \in {3, 8, 18, 21, 26, 28, 31} THEN "string"
    ELSE IF id \in {9, 22} THEN "binary"
    ELSE IF id = 38 THEN "pair"
    ELSE "none"

\* The number of bytes a variable-byte integer of this value encodes to.
VarIntEncodedLen(v) ==
    IF v < 128 THEN 1 ELSE IF v < 16384 THEN 2 ELSE IF v < 2097152 THEN 3 ELSE 4

\* The reader call Property::decode makes for a value of this kind.
ReadValue(kind, buf, pos) ==
    CASE kind = "byte" -> read_u8(buf, pos)
      [] kind = "u16" -> read_u16(buf, pos)
      [] kind = "u32" -> read_u32(buf, pos)
      [] kind = "varint" -> read_variable_byte_int(buf, pos)
      [] kind = "string" -> read_string(buf, pos)
      [] kind = "binary" -> read_binary(buf, pos)
      [] kind = "pair" -> read_string_pair(buf, pos)

\* Property::len of a decoded property: the identifier byte plus the value's
\* encoded bytes.
Property_len(kind, r) ==
    CASE kind = "byte" -> 2
      [] kind = "u16" -> 3
      [] kind = "u32" -> 5
      [] kind = "varint" -> 1 + VarIntEncodedLen(r.val)
      [] kind = "string" -> 1 + EncodedString_len(r.val)
      [] kind = "binary" -> 1 + BinaryData_len(r.val)
      [] kind = "pair" ->
            1 + StringPair_len(r.views[1][2] - r.views[1][1],
                               r.views[2][2] - r.views[2][1])

NoProperty == [id |-> 0, at |-> 0, len |-> 0]

\* The tail of Property::decode: v is the value read for identifier id.
Property_of(pos, id, kind, v) ==
    IF v.res # "Ok"
    THEN [res |-> v.res, err |-> v.err, pos |-> v.pos, hi |-> Max(id.hi, v.hi),
          prop |-> NoProperty]
    ELSE [res |-> "Ok", err |-> "", pos |-> v.pos, hi |-> Max(id.hi, v.hi),
          prop |-> [id |-> id.val, at |-> pos, len |-> Property_len(kind, v)]]

\* Property::decode at the cursor: res/err/pos/hi as for a reader call, and
\* prop the decoded property (its identifier, the offset of its identifier
\* byte, and its Property::len).
Property_decode(buf, pos) ==
    LET id == read_u8(buf, pos)
        kind == PropertyKind(id.val)
    IN  IF id.res # "Ok"
        THEN [res |-> id.res, err |-> id.err, pos |-> id.pos, hi |-> id.hi,
              prop |-> NoProperty]
        ELSE IF kind = "none"
        THEN [res |-> "Err", err |-> "IdNotFound", pos |-> id.pos, hi |-> id.hi,
              prop |-> NoProperty]
        ELSE Property_of(pos, id, kind, ReadValue(kind, buf, id.pos))

(***************************************************************************)
(* The property-list decode loop.                                          *)
(***************************************************************************)
MAX_PROPERTIES == 18
MAX_WILL_PROPERTIES == 7

\* heapless::Vec::push: an item pushed onto a full list is handed back in an
\* Err, which the decoders drop.
Vec_push(list, item, capacity) ==
    IF Len(list) < capacity THEN Append(list, item) ELSE list

\* One iteration of the loop of decode_properties / decode_will_properties,
\* prop being what Property::decode returned at the cursor: on Ok add the
\* property's length plus one to the running count and push it, otherwise only
\* log; then break when the running count equals the declared length.
\*   ctl  "Panic", "Break" or "Continue"
\*   ok   whether Property::decode returned Ok
PropertyLoopIter(prop, count, property_len, list, capacity) ==
    LET \* a u32 sum; a buffer of the model cannot make it wrap
        nx == IF prop.res = "Ok" THEN count + prop.prop.len + 1 ELSE count
    IN  [ctl |-> IF prop.res = "Panic" THEN "Panic"
                 ELSE IF nx = property_len THEN "Break" ELSE "Continue",
         ok |-> prop.res = "Ok",
         pos |-> prop.pos,
         hi |-> prop.hi,
         count |-> IF prop.res = "Panic" THEN count ELSE nx,
         list |-> IF prop.res = "Ok" THEN Vec_push(list, prop.prop, capacity) ELSE list]

(***************************************************************************)
(* Inputs.  A caller either drives the BuffReader directly, or hands a     *)
(* fresh reader over a received buffer to one of the two packet decoders.  *)
(***************************************************************************)
Seqs(S, n) == UNION {[1..k -> S] : k \in 0..n}

\* Bytes for the reader: zero, small lengths, a byte with the continuation
\* bit set (which alone is also ill-formed UTF-8).
ReaderBytes == {0, 1, 2, 128}
SmallBuffers == Seqs(ReaderBytes, MaxLen)

\* CONNACK: the fixed header byte 0x20, a remaining length, and a body of
\* ack flags, reason code, property length and property bytes.  1 and 3 are
\* the identifiers of a byte and of a string property.
BodyBytes == {0, 1, 3, 128}
Bodies == Seqs(BodyBytes, MaxTail)
ConnackBuffers == {<<32, rl>> \o t : rl \in {3}, t \in Bodies}

\* CONNECT: fixed header 0x10, remaining length, protocol name length 4,
\* "MQTT", version 5, connect flags, keep-alive 60, then property section and
\* payload.
ConnectFlags == {0, 2, 4, 192}
PayloadBytes == {0, 1, 3}
ConnectHeader(flags, remain) == <<16, remain, 0, 4, 77, 81, 84, 84, 5, flags, 0, 60>>
ConnectBuffers ==
    {ConnectHeader(fl, 10 + Len(t)) \o t : fl \in ConnectFlags, t \in Seqs(PayloadBytes, MaxTail)}

\* The minimal CONNACK, and the CONNECT of client "abc" with no properties.
MinimalConnack == <<32, 3, 0, 0, 0>>
ConnectAbc == ConnectHeader(2, 16) \o <<0, 0, 3, 97, 98, 99>>

\* Property sections with a binary (9), a variable-byte-integer (11), a
\* two-byte (19), a four-byte (2) and a string-pair (38) property.
PropertyVectors ==
    { <<32, 9, 0, 0, 4, 9, 0, 1, 7, 0, 0, 0>>,
      <<32, 7, 0, 0, 3, 11, 128, 1, 0, 0, 0>>,
      <<32, 6, 0, 0, 3, 19, 0, 60, 0, 0, 0>>,
      <<32, 8, 0, 0, 5, 2, 0, 0, 0, 1, 0, 0, 0>>,
      <<32, 9, 0, 0, 6, 38, 0, 1, 97, 0, 0, 0, 0, 0>> }

\* Property sections of n byte properties (identifier 1, value 0), which the
\* loop counts as 3 each: one more than a list holds, for either capacity.
RECURSIVE Repeat(_, _)
Repeat(s, n) == IF n = 0 THEN <<>> ELSE s \o Repeat(s, n - 1)
ByteProperties(n) == <<3 * n>> \o Repeat(<<1, 0>>, n)
OverfullWill == ByteProperties(MAX_WILL_PROPERTIES + 1)
OverfullConnack == <<32, 3, 0, 0>> \o ByteProperties(MAX_PROPERTIES + 1)

\* A will property section on its own: its length, then property bytes.
WillInputs == Seqs(BodyBytes, MaxLen) \cup {OverfullWill}

\* The inputs of the termination check: a property length, then up to
\* MaxLoopTail property bytes, after the fields that come before them.
LoopSections == {<<pl>> \o t : pl \in {0, 1, 3}, t \in Seqs(BodyBytes, MaxLoopTail)}
LoopReaderInputs == Seqs(ReaderBytes, 2)
LoopConnackInputs == {<<32, 3, 0, 0>> \o t : t \in LoopSections} \cup PropertyVectors
LoopConnectInputs ==
    {ConnectHeader(fl, 10 + Len(t)) \o t : fl \in {0, 4}, t \in Seqs(PayloadBytes, MaxLoopTail)}
LoopWillInputs == LoopSections

ConnackInputs == SmallBuffers \cup ConnackBuffers \cup PropertyVectors \cup {MinimalConnack} \cup {OverfullConnack}
ConnectInputs == SmallBuffers \cup ConnectBuffers \cup {ConnectAbc}

(***************************************************************************)
(* The packet under construction.  ControlPacket::clean gives the CONNECT  *)
(* fields; a ConnackPacket uses fixed_header, remain_len, ack_flags,       *)
(* connect_reason_code, property_len and properties.                       *)
(***************************************************************************)
clean ==
    [fixed_header |-> 0, remain_len |-> 0, packet_identifier |-> 0,
     protocol_name_len |-> 0, protocol_name |-> <<0, 0>>, protocol_version |-> 5,
     connect_flags |-> 0, keep_alive |-> 0, property_len |-> 0,
     properties |-> <<>>, client_id |-> EncodedString_new,
     will_property_len |-> 0, will_properties |-> <<>>,
     will_topic |-> EncodedString_new, will_payload |-> BinaryData_new,
     username |-> EncodedString_new, password |-> BinaryData_new,
     ack_flags |-> 0, connect_reason_code |-> 0]

NoRead == [op |-> "none", start |-> 0, r |-> Res("Ok", "", 0, 0, <<>>, 0)]

\* A reader over a buffer, or a call of one of the public decode functions with
\* a fresh reader and a fresh packet.
InitFrom(readerInputs, connackInputs, connectInputs, willInputs) ==
    /\ \/ entry = "reader" /\ pc = "idle" /\ buffer \in readerInputs
       \/ entry = "decode_connack_packet" /\ pc = entry /\ buffer \in connackInputs
       \/ entry = "decode_control_packet" /\ pc = entry /\ buffer \in connectInputs
       \/ entry = "decode_will_properties" /\ pc = entry /\ buffer \in willInputs
    /\ position = 0
    /\ last = NoRead
    /\ reach = 0
    /\ pkt = clean
    /\ x = 0
    /\ declared = 0
    /\ log = <<>>
    /\ failed = FALSE

Init == InitFrom(SmallBuffers, ConnackInputs, ConnectInputs, WillInputs)

(***************************************************************************)
(* A caller's direct use of the reader: one action per read operation.     *)
(***************************************************************************)
Read(op, r) ==
    /\ pc = "idle"
    /\ \E out \in {r} :
        /\ position' = out.pos
        /\ last' = [op |-> op, start |-> position, r |-> out]
        /\ reach' = Max(reach, out.hi)
        /\ pc' = IF out.res = "Panic" THEN "panic" ELSE "idle"
    /\ UNCHANGED <<buffer, entry, pkt, x, declared, log, failed>>

ReadU8 == Read("read_u8", read_u8(buffer, position))
ReadU16 == Read("read_u16", read_u16(buffer, position))
ReadU32 == Read("read_u32", read_u32(buffer, position))
ReadVariableByteInt ==
    Read("read_variable_byte_int", read_variable_byte_int(buffer, position))
ReadString == Read("read_string", read_string(buffer, position))
ReadBinary == Read("read_binary", read_binary(buffer, position))
ReadStringPair == Read("read_string_pair", read_string_pair(buffer, position))

(***************************************************************************)
(* The packet decoders, one step per call on the reader.  A step's outcome *)
(* is the caller's next place, the cursor, the packet, the loop counters,  *)
(* the fields it read and whether a property decode failed in it.          *)
(***************************************************************************)
Out(pcv, pos, hi, p, count, decl, read, bad) ==
    [pc |-> pcv, pos |-> pos, hi |-> hi, pkt |-> p, x |-> count, declared |-> decl,
     read |-> read, bad |-> bad]

\* The step's outcome o is computed once and written to the state.
Apply(o) ==
    \E out \in {o} :
        /\ pc' = out.pc
        /\ position' = out.pos
        /\ reach' = Max(reach, out.hi)
        /\ pkt' = out.pkt
        /\ x' = out.x
        /\ declared' = out.declared
        /\ log' = log \o out.read
        /\ failed' = (failed \/ out.bad)
        /\ UNCHANGED <<buffer, entry, last>>

\* Result::unwrap: an Err panics.
Unwrap(r) == IF r.res = "Err" THEN [r EXCEPT !.res = "Panic"] ELSE r

\* What the log of a decode gains from an unwrap that panicked: "Err" when it
\* was a returned Err that was unwrapped, nothing when the read itself panicked.
UnwrapFailed(r) == IF r.res = "Panic" /\ r.err # "" THEN <<"Err">> ELSE <<>>

\* self.<field> = buff_reader.<read>().unwrap(), then on to next.
ReadField(r0, field, as, next) ==
    LET r == Unwrap(r0)
    IN  IF r.res = "Panic"
        THEN Out("panic", r.pos, r.hi, pkt, x, declared, UnwrapFailed(r), FALSE)
        ELSE Out(next, r.pos, r.hi,
                 [pkt EXCEPT ![field] = CASE as = "int" -> r.val
                                          [] as = "wide" -> r.wide
                                          [] as = "view" -> ViewOf(r)],
                 x, declared, <<field>>, FALSE)

\* decode_fixed_header (the same in ControlPacket and ConnackPacket): the
\* first byte, then the remaining length; expected is the packet type the
\* caller compares the result with, and mismatch the place it goes to when the
\* types differ.
decode_fixed_header(expected, match, mismatch) ==
    LET first_byte == Unwrap(read_u8(buffer, position))
        p1 == [pkt EXCEPT !.fixed_header = first_byte.val]
        remain == Unwrap(read_variable_byte_int(buffer, first_byte.pos))
        p2 == [p1 EXCEPT !.remain_len = remain.val]
    IN  IF first_byte.res = "Panic"
        THEN Out("panic", first_byte.pos, first_byte.hi, pkt, x, declared, <<>>, FALSE)
        ELSE IF remain.res = "Panic"
        THEN Out("panic", remain.pos, Max(first_byte.hi, remain.hi), p1, x, declared,
                 <<"fixed_header">> \o UnwrapFailed(remain), FALSE)
        ELSE Out(IF PacketType_from(p2.fixed_header) # expected THEN mismatch ELSE match,
                 remain.pos, Max(first_byte.hi, remain.hi), p2, x, declared,
                 <<"fixed_header", "remain_len">>, FALSE)

\* The head of decode_properties: the declared property length, and x = 0.
decode_properties_len(next) ==
    LET r == Unwrap(read_variable_byte_int(buffer, position))
    IN  IF r.res = "Panic"
        THEN Out("panic", r.pos, r.hi, pkt, x, declared, UnwrapFailed(r), FALSE)
        ELSE Out(next, r.pos, r.hi, [pkt EXCEPT !.property_len = r.val], 0, r.val,
                 <<"property_len">>, FALSE)

\* The outcome of the loop iteration it on the list pkt[list].
LoopOutcome(it, list, here, next) ==
    Out(CASE it.ctl = "Panic" -> "panic"
          [] it.ctl = "Break" -> next
          [] it.ctl = "Continue" -> here,
        it.pos, it.hi, [pkt EXCEPT ![list] = it.list], it.count, declared,
        IF it.ok THEN <<"property">> ELSE <<>>,
        it.ctl # "Panic" /\ ~it.ok)

\* One iteration of a property loop that fills pkt[list].  (The decoded
\* property and the iteration are each bound as a value, so that they are
\* computed once.)
properties_loop(list, capacity, here, next) ==
    CHOOSE o \in
        {LoopOutcome(it, list, here, next) :
            it \in {PropertyLoopIter(prop, x, declared, pkt[list], capacity) :
                        prop \in {Property_decode(buffer, position)}}} : TRUE

(***************************************************************************)
(* ConnackPacket::decode_connack_packet                                    *)
(***************************************************************************)
connack_decode_fixed_header ==
    /\ pc = "decode_connack_packet"
    /\ Apply(decode_fixed_header(Connack, "connack_ack_flags", "done"))

connack_ack_flags ==
    /\ pc = "connack_ack_flags"
    /\ Apply(ReadField(read_u8(buffer, position), "ack_flags", "int",
                       "connack_connect_reason_code"))

connack_connect_reason_code ==
    /\ pc = "connack_connect_reason_code"
    /\ Apply(ReadField(read_u8(buffer, position), "connect_reason_code", "int",
                       "connack_decode_properties"))

connack_decode_properties ==
    /\ pc = "connack_decode_properties"
    /\ Apply(decode_properties_len("connack_properties_loop"))

connack_properties_loop ==
    /\ pc = "connack_properties_loop"
    /\ Apply(properties_loop("properties", MAX_PROPERTIES, "connack_properties_loop",
                             "done"))

(***************************************************************************)
(* ControlPacket::decode_control_packet                                    *)
(***************************************************************************)
\* self.packet_identifier = 0, once the fixed header has been read.
ClearPacketIdentifier(o) ==
    IF o.pc = "panic" THEN o ELSE [o EXCEPT !.pkt.packet_identifier = 0]

\* A type other than CONNECT is logged and the decode goes on.
control_decode_fixed_header ==
    /\ pc = "decode_control_packet"
    /\ Apply(ClearPacketIdentifier(
                decode_fixed_header(Connect, "control_protocol_name_len",
                                    "control_protocol_name_len")))

control_protocol_name_len ==
    /\ pc = "control_protocol_name_len"
    /\ Apply(ReadField(read_u16(buffer, position), "protocol_name_len", "int",
                       "control_protocol_name"))

control_protocol_name ==
    /\ pc = "control_protocol_name"
    /\ Apply(ReadField(read_u32(buffer, position), "protocol_name", "wide",
                       "control_protocol_version"))

control_protocol_version ==
    /\ pc = "control_protocol_version"
    /\ Apply(ReadField(read_u8(buffer, position), "protocol_version", "int",
                       "control_connect_flags"))

control_connect_flags ==
    /\ pc = "control_connect_flags"
    /\ Apply(ReadField(read_u8(buffer, position), "connect_flags", "int",
                       "control_keep_alive"))

control_keep_alive ==
    /\ pc = "control_keep_alive"
    /\ Apply(ReadField(read_u16(buffer, position), "keep_alive", "int",
                       "control_decode_properties"))

control_decode_properties ==
    /\ pc = "control_decode_properties"
    /\ Apply(decode_properties_len("control_properties_loop"))

control_properties_loop ==
    /\ pc = "control_properties_loop"
    /\ Apply(properties_loop("properties", MAX_PROPERTIES, "control_properties_loop",
                             "payload_client_id"))

\* The head of decode_will_properties: the declared length is a local.
decode_will_properties_len(next) ==
    LET r == Unwrap(read_variable_byte_int(buffer, position))
    IN  IF r.res = "Panic"
        THEN Out("panic", r.pos, r.hi, pkt, x, declared, UnwrapFailed(r), FALSE)
        ELSE Out(next, r.pos, r.hi, pkt, 0, r.val, <<"will_property_len">>, FALSE)

\* ControlPacket::decode_will_properties, called by decode_payload or on its
\* own: it returns to decode_payload's read of the will topic, or to its caller.
AfterWillProperties ==
    IF entry = "decode_will_properties" THEN "done" ELSE "payload_will_topic"

decode_will_properties ==
    /\ pc \in {"decode_will_properties", "will_properties_loop"}
    /\ Apply(IF pc = "decode_will_properties"
             THEN decode_will_properties_len("will_properties_loop")
             ELSE properties_loop("will_properties", MAX_WILL_PROPERTIES,
                                  "will_properties_loop", AfterWillProperties))

\* The test decode_payload makes of a connect-flags bit.
FlagTest(connect_flags, bit) == BitAnd(connect_flags, bit) = 1

PayloadPcs ==
    {"payload_client_id", "payload_will", "payload_will_topic",
     "payload_will_payload", "payload_username", "payload_password"}

Skip(next) == Out(next, position, 0, pkt, x, declared, <<>>, FALSE)

\* ControlPacket::decode_payload, one call on the reader (or one flag test
\* that skips a section) at a time.
decode_payload_step ==
    CASE pc = "payload_client_id" ->
            ReadField(read_string(buffer, position), "client_id", "view", "payload_will")
      [] pc = "payload_will" ->
            IF FlagTest(pkt.connect_flags, 4)
            THEN decode_will_properties_len("will_properties_loop")
            ELSE Skip("payload_username")
      [] pc = "payload_will_topic" ->
            ReadField(read_string(buffer, position), "will_topic", "view",
                      "payload_will_payload")
      [] pc = "payload_will_payload" ->
            ReadField(read_binary(buffer, position), "will_payload", "view",
                      "payload_username")
      [] pc = "payload_username" ->
            IF FlagTest(pkt.connect_flags, 128)
            THEN ReadField(read_string(buffer, position), "username", "view",
                           "payload_password")
            ELSE Skip("payload_password")
      [] pc = "payload_password" ->
            IF FlagTest(pkt.connect_flags, 64)
            THEN ReadField(read_binary(buffer, position), "password", "view", "done")
            ELSE Skip("done")

decode_payload ==
    /\ pc \in PayloadPcs
    /\ Apply(decode_payload_step)

(***************************************************************************)
(* The specification.                                                      *)
(***************************************************************************)
Next ==
    \/ ReadU8
    \/ ReadU16
    \/ ReadU32
    \/ ReadVariableByteInt
    \/ ReadString
    \/ ReadBinary
    \/ ReadStringPair
    \/ connack_decode_fixed_header
    \/ connack_ack_flags
    \/ connack_connect_reason_code
    \/ connack_decode_properties
    \/ connack_properties_loop
    \/ control_decode_fixed_header
    \/ control_protocol_name_len
    \/ control_protocol_name
    \/ control_protocol_version
    \/ control_connect_flags
    \/ control_keep_alive
    \/ control_decode_properties
    \/ control_properties_loop
    \/ decode_will_properties
    \/ decode_payload

Spec == Init /\ [][Next]_vars

\* A decode runs to its end: it is sequential code that nothing suspends.
LoopInit == InitFrom(LoopReaderInputs, LoopConnackInputs, LoopConnectInputs, LoopWillInputs)
FairSpec == LoopInit /\ [][Next]_vars /\ WF_vars(Next)

(***************************************************************************)
(* Calls outside a decode: the fixed-header setters of ControlPacket on a  *)
(* packet with any fixed header, and the encoded-size helpers on a value   *)
(* with any declared length.  One call per behaviour; last records the     *)
(* call (for a setter, start is the fixed header before it), and log the   *)
(* error a setter logged.                                                  *)
(***************************************************************************)
BitOr(a, b) == a + b - BitAnd(a, b)

\* <PacketType as Into<u8>>::into: the packet kind in the high nibble.
PacketType_into(packet_type) == packet_type * 16
PacketTypes == 1..15

\* addPacketType without the mask that clears the previous type.
addPacketType_unmasked(fixed_header, new_packet_type) ==
    BitOr(fixed_header, PacketType_into(new_packet_type))

\* ControlPacket::addPacketType
addPacketType(fixed_header, new_packet_type) ==
    BitOr(BitAnd(fixed_header, 15), PacketType_into(new_packet_type))

\* addFlags that ORs the new flags into the whole previous fixed header.
addFlags_onto_previous(fixed_header, dup, qos, retain) ==
    IF BitAnd(fixed_header, 240) # 48
    THEN [fixed_header |-> fixed_header, error |-> TRUE]
    ELSE [fixed_header |->
              BitOr(fixed_header,
                    (IF dup THEN 8 ELSE 0) + (IF qos = 1 THEN 2 ELSE 0)
                        + (IF qos = 2 THEN 4 ELSE 0) + (IF retain THEN 1 ELSE 0)),
          error |-> FALSE]

\* ControlPacket::addFlags: the fixed header after the call, and whether the
\* call logged its error and returned.
addFlags(fixed_header, dup, qos, retain) ==
    LET cur_type == BitAnd(fixed_header, 240)
        f_dup == IF dup THEN BitOr(0, 8) ELSE 0
        f_qos1 == IF qos = 1 THEN BitOr(f_dup, 2) ELSE f_dup
        f_qos2 == IF qos = 2 THEN BitOr(f_qos1, 4) ELSE f_qos1
        flags == IF retain THEN BitOr(f_qos2, 1) ELSE f_qos2
    IN  IF cur_type # 48
        THEN [fixed_header |-> fixed_header, error |-> TRUE]
        ELSE [fixed_header |-> BitOr(cur_type, flags), error |-> FALSE]

\* A u16 sum a + b.  When it exceeds 65535 a build with overflow checks
\* panics and a build without them wraps; checks chooses between the two.
U16Add(a, b, checks) ==
    IF a + b <= 65535 THEN [panic |-> FALSE, val |-> a + b]
    ELSE IF checks THEN [panic |-> TRUE, val |-> 0]
    ELSE [panic |-> FALSE, val |-> (a + b) % 65536]

\* StringPair::len: the sum of the two members' len(), each a u16 sum.
StringPair_len_call(name_len, value_len, checks) ==
    LET n == U16Add(name_len, 2, checks)
        v == U16Add(value_len, 2, checks)
    IN  IF n.panic \/ v.panic THEN [panic |-> TRUE, val |-> 0]
        ELSE U16Add(n.val, v.val, checks)

\* Declared lengths: the smallest and the largest a u16 holds.
LenEdge == 3
Lens == (0..LenEdge) \cup ((65535 - LenEdge)..65535)
QosValues == 0..3

CallInit ==
    /\ \/ entry = "packet" /\ \E h \in 0..255 : pkt = [clean EXCEPT !.fixed_header = h]
       \/ entry = "value" /\ pkt = clean
    /\ pc = "call"
    /\ buffer = <<>>
    /\ position = 0
    /\ last = NoRead
    /\ reach = 0
    /\ x = 0
    /\ declared = 0
    /\ log = <<>>
    /\ failed = FALSE

Called(op, before, args, val, panics) ==
    /\ last' = [op |-> op, start |-> before, args |-> args,
                r |-> Res(IF panics THEN "Panic" ELSE "Ok", "", 0, val, <<>>, 0)]
    /\ pc' = IF panics THEN "panic" ELSE "done"
    /\ UNCHANGED <<buffer, entry, position, reach, x, declared, failed>>

AddPacketType ==
    /\ pc = "call" /\ entry = "packet"
    /\ \E new_packet_type \in PacketTypes :
        /\ pkt' = [pkt EXCEPT !.fixed_header = addPacketType(@, new_packet_type)]
        /\ log' = log
        /\ Called("addPacketType", pkt.fixed_header, <<new_packet_type>>, 0, FALSE)

AddFlags ==
    /\ pc = "call" /\ entry = "packet"
    /\ \E dup \in BOOLEAN, qos \in QosValues, retain \in BOOLEAN :
        \E out \in {addFlags(pkt.fixed_header, dup, qos, retain)} :
            /\ pkt' = [pkt EXCEPT !.fixed_header = out.fixed_header]
            /\ log' = IF out.error THEN Append(log, "error") ELSE log
            /\ Called("addFlags", pkt.fixed_header, <<dup, qos, retain>>, 0, FALSE)

EncodedStringLen ==
    /\ pc = "call" /\ entry = "value"
    /\ \E len \in Lens, checks \in BOOLEAN :
        \E out \in {U16Add(len, 2, checks)} :
            /\ Called("EncodedString::len", 0, <<len>>, out.val, out.panic)
            /\ UNCHANGED <<pkt, log>>

BinaryDataLen ==
    /\ pc = "call" /\ entry = "value"
    /\ \E len \in Lens, checks \in BOOLEAN :
        \E out \in {U16Add(len, 2, checks)} :
            /\ Called("BinaryData::len", 0, <<len>>, out.val, out.panic)
            /\ UNCHANGED <<pkt, log>>

StringPairLen ==
    /\ pc = "call" /\ entry = "value"
    /\ \E name_len \in Lens, value_len \in Lens, checks \in BOOLEAN :
        \E out \in {StringPair_len_call(name_len, value_len, checks)} :
            /\ Called("StringPair::len", 0, <<name_len, value_len>>, out.val, out.panic)
            /\ UNCHANGED <<pkt, log>>

CallNext ==
    \/ AddPacketType
    \/ AddFlags
    \/ EncodedStringLen
    \/ BinaryDataLen
    \/ StringPairLen

CallSpec == CallInit /\ [][CallNext]_vars

(***************************************************************************)
(* What the claims speak of.                                               *)
(***************************************************************************)
Ended == pc \in {"done", "panic"}
InPropertyLoop ==
    pc \in {"connack_properties_loop", "control_properties_loop", "will_properties_loop"}
Has(field) == \E i \in 1..Len(log) : log[i] = field

\* What a decode hands to its caller: the decoders return (), so a caller sees
\* a return or a panic, never a ParseError.
Outcome == IF pc = "panic" THEN "Panic" ELSE IF pc = "done" THEN "Returned" ELSE "Running"

\* The bytes left between an offset and the end of the buffer.
Avail(buf, pos) == Len(buf) - pos

\* The wire format's variable-byte integer at an offset (MQTT v5): the number of
\* leading bytes with the continuation bit set among the first n, n <= 4.
RECURSIVE LeadingCont(_, _, _)
LeadingCont(buf, pos, n) ==
    IF n = 0 \/ pos >= Len(buf) \/ At(buf, pos) < 128 THEN 0
    ELSE 1 + LeadingCont(buf, pos + 1, n - 1)

\* A well-formed integer of k <= 4 bytes lies wholly inside the buffer.
VarIntWellFormed(buf, pos) ==
    LET c == LeadingCont(buf, pos, 4) IN c < 4 /\ pos + c < Len(buf)
\* The continuation chain runs off the end of the buffer.
VarIntTruncated(buf, pos) ==
    LET c == LeadingCont(buf, pos, 4) IN c < 4 /\ pos + c >= Len(buf)
VarIntTrueLen(buf, pos) == Min(LeadingCont(buf, pos, 4) + 1, 4)
VarIntTrueVal(buf, pos) ==
    LET k == VarIntTrueLen(buf, pos)
        d(i) == IF i < k THEN At(buf, pos + i) % 128 ELSE 0
    IN  d(0) + 128 * d(1) + 16384 * d(2) + 2097152 * d(3)

\* Whether the read last made needed more bytes than were left.
ShortRead ==
    LET a == Avail(buffer, last.start)
        declaredLen == At(buffer, last.start) * 256 + At(buffer, last.start + 1)
    IN  CASE last.op = "read_u8" -> a < 1
          [] last.op = "read_u16" -> a < 2
          [] last.op = "read_u32" -> a < 4
          [] last.op = "read_variable_byte_int" -> VarIntTruncated(buffer, last.start)
          [] last.op \in {"read_string", "read_binary"} -> a < 2 \/ a < 2 + declaredLen
          [] OTHER -> FALSE

\* The bytes a successful read consumed, by the wire format.
Consumed ==
    CASE last.op = "read_u8" -> 1
      [] last.op = "read_u16" -> 2
      [] last.op = "read_u32" -> 4
      [] last.op = "read_variable_byte_int" -> VarIntTrueLen(buffer, last.start)
      [] last.op \in {"read_string", "read_binary"} -> 2 + last.r.val
      [] last.op = "read_string_pair" -> 4 + last.r.val
      [] OTHER -> 0

(***************************************************************************)
(* C1.  Across every read, by a caller or inside a decode, the cursor      *)
(* never moves back and never passes the end of the buffer, and every      *)
(* string or binary view handed out (by a read, or stored in a packet      *)
(* field) covers a byte range inside the buffer.                           *)
(***************************************************************************)
ViewFields == {"client_id", "will_topic", "will_payload", "username", "password"}

ViewsInside ==
    /\ last.r.res = "Ok" =>
         \A i \in 1..Len(last.r.views) :
            /\ 0 <= last.r.views[i][1]
            /\ last.r.views[i][1] <= last.r.views[i][2]
            /\ last.r.views[i][2] <= Len(buffer)
    /\ \A f \in ViewFields :
         pkt[f].from >= 0 => pkt[f].from + pkt[f].view_len <= Len(buffer)

C1_CursorAndViewsInBounds ==
    /\ [](position <= Len(buffer) /\ ViewsInside)
    /\ [][position' >= position]_vars

\* A string read that returned a non-empty view ending at the last byte.
C1_Witness ==
    /\ last.op = "read_string"
    /\ last.r.res = "Ok"
    /\ last.r.val > 0
    /\ position = Len(buffer)
    /\ position > last.start

(***************************************************************************)
(* C2.  A read (u8, u16, u32, variable-byte integer, string, binary) that  *)
(* needs more bytes than remain returns Err(IndexOutOfBounce) and does not *)
(* panic.                                                                  *)
(***************************************************************************)
C2_ShortReadIsIndexOutOfBounce ==
    ShortRead => last.r.res = "Err" /\ last.r.err = "IndexOutOfBounce"

(***************************************************************************)
(* C7.  read_variable_byte_int moves the cursor by the true encoded length *)
(* of the integer: the leading bytes with bit 7 set, plus one.             *)
(***************************************************************************)
C7_VarIntAdvancesByTrueLength ==
    (last.op = "read_variable_byte_int" /\ last.r.res = "Ok")
        => position - last.start = VarIntTrueLen(buffer, last.start)

(***************************************************************************)
(* C8.  read_variable_byte_int returns Ok for a well-formed integer of k   *)
(* bytes whenever k bytes remain, also when fewer than four remain, and    *)
(* returns an Err (no panic) for an integer cut off by the buffer's end.   *)
(***************************************************************************)
C8_VarIntNeedsOnlyItsBytes ==
    last.op = "read_variable_byte_int" =>
        /\ VarIntWellFormed(buffer, last.start) =>
              last.r.res = "Ok" /\ last.r.val = VarIntTrueVal(buffer, last.start)
        /\ VarIntTruncated(buffer, last.start) => last.r.res = "Err"

(***************************************************************************)
(* C9.  A read that returns Ok moves the cursor by the bytes it consumed:  *)
(* 1, 2, 4 for u8, u16, u32; 2 + L for a string or a binary of declared    *)
(* length L; both strings' 2 + L for a string pair.                        *)
(***************************************************************************)
C9_OkReadAdvancesByConsumed ==
    (last.op \in {"read_u8", "read_u16", "read_u32", "read_string", "read_binary",
                  "read_string_pair"} /\ last.r.res = "Ok")
        => position - last.start = Consumed

(***************************************************************************)
(* The property section of a CONNACK as the wire format defines it: the    *)
(* reference the decode loop is compared with.                             *)
(***************************************************************************)
\* The encoded length of a length-prefixed field at an offset that lies inside
\* the buffer, -1 when it does not (utf8: the bytes must be well-formed UTF-8).
RefPrefixedLen(buf, pos, utf8) ==
    IF pos + 2 > Len(buf) THEN -1
    ELSE LET l == At(buf, pos) * 256 + At(buf, pos + 1)
         IN  IF pos + 2 + l > Len(buf) THEN -1
             ELSE IF utf8 /\ ~from_utf8_ok(Slice(buf, pos + 2, pos + 2 + l)) THEN -1
             ELSE 2 + l

\* The encoded length of a property value of this kind at an offset, -1 when
\* no well-formed value lies there.
RefValueLen(kind, buf, pos) ==
    CASE kind = "byte" -> IF pos + 1 <= Len(buf) THEN 1 ELSE -1
      [] kind = "u16" -> IF pos + 2 <= Len(buf) THEN 2 ELSE -1
      [] kind = "u32" -> IF pos + 4 <= Len(buf) THEN 4 ELSE -1
      [] kind = "varint" ->
            IF VarIntWellFormed(buf, pos) THEN VarIntTrueLen(buf, pos) ELSE -1
      [] kind = "string" -> RefPrefixedLen(buf, pos, TRUE)
      [] kind = "binary" -> RefPrefixedLen(buf, pos, FALSE)
      [] kind = "pair" ->
            LET n == RefPrefixedLen(buf, pos, TRUE)
                v == IF n < 0 THEN -1 ELSE RefPrefixedLen(buf, pos + n, TRUE)
            IN  IF v < 0 THEN -1 ELSE n + v

\* The properties that fill the bytes pos .. end-1 exactly, in wire order.
RECURSIVE RefProperties(_, _, _)
RefProperties(buf, pos, end) ==
    IF pos = end THEN [ok |-> TRUE, props |-> <<>>]
    ELSE IF pos > end \/ pos >= Len(buf) THEN [ok |-> FALSE, props |-> <<>>]
    ELSE LET id == At(buf, pos)
             kind == PropertyKind(id)
             n == IF kind = "none" THEN -1 ELSE RefValueLen(kind, buf, pos + 1)
             rest == RefProperties(buf, pos + 1 + n, end)
         IN  IF n < 0 \/ pos + 1 + n > end \/ ~rest.ok
             THEN [ok |-> FALSE, props |-> <<>>]
             ELSE [ok |-> TRUE,
                   props |-> <<[id |-> id, at |-> pos, len |-> 1 + n]>> \o rest.props]

\* A CONNACK buffer's property section: where its length field and its first
\* property lie, the length it declares, and the properties it holds.
RefConnack(buf) ==
    LET lenAt == 1 + VarIntTrueLen(buf, 1) + 2
        start == lenAt + VarIntTrueLen(buf, lenAt)
        decl == VarIntTrueVal(buf, lenAt)
        wf == /\ Len(buf) >= 2
              /\ VarIntWellFormed(buf, 1)
              /\ VarIntWellFormed(buf, lenAt)
    IN  [ok |-> wf /\ RefProperties(buf, start, start + decl).ok,
         start |-> start,
         declared |-> decl,
         props |-> IF wf THEN RefProperties(buf, start, start + decl).props ELSE <<>>]

(***************************************************************************)
(* C3.  A property-list decode loop, once entered, is left: it does not    *)
(* iterate forever waiting for the running count to equal the declared     *)
(* length, whether a property decode fails or the count overshoots.  (It   *)
(* is left by the break, or by a panic of the read that runs off the       *)
(* buffer.)  Checked under FairSpec.                                       *)
(***************************************************************************)
C3_PropertyLoopTerminates == InPropertyLoop ~> ~InPropertyLoop

\* A loop that went on past a failed property decode and past the declared
\* length, and has ended.
C3_Witness ==
    /\ entry = "decode_connack_packet"
    /\ Has("property_len")
    /\ Ended
    /\ failed
    /\ x > declared

(***************************************************************************)
(* C4.  When the running sum of consumed property bytes exceeds the        *)
(* declared property length, the decode fails with DecodingError.          *)
(***************************************************************************)
C4_OvershootIsDecodingError ==
    (Has("property_len") /\ x > declared /\ Ended) => Outcome = "DecodingError"

(***************************************************************************)
(* C5.  When the declared property length equals the sum of the encoded    *)
(* lengths of the N properties that follow it, the loop appends exactly    *)
(* those N properties in wire order, moves the cursor by exactly the       *)
(* declared length, and reads nothing past the declared boundary.          *)
(***************************************************************************)
C5_ExactPropertySection ==
    (entry = "decode_connack_packet" /\ Has("property_len") /\ RefConnack(buffer).ok)
        => LET ref == RefConnack(buffer)
           IN  /\ position <= ref.start + ref.declared
               /\ Ended => /\ pc = "done"
                           /\ pkt.properties = ref.props
                           /\ position = ref.start + ref.declared

(***************************************************************************)
(* C6.  A property section of declared length 0 decodes no property: the   *)
(* minimal CONNACK 0x20 0x03 0x00 0x00 0x00 decodes to completion with     *)
(* connect_reason_code 0, ack_flags 0 and an empty property list, and no   *)
(* property decode is tried on the bytes after the length field.           *)
(***************************************************************************)
C6_MinimalConnackDecodes ==
    /\ (entry = "decode_connack_packet" /\ buffer = MinimalConnack /\ Ended)
          => /\ pc = "done"
             /\ pkt.connect_reason_code = 0
             /\ pkt.ack_flags = 0
             /\ pkt.properties = <<>>
    /\ (entry = "decode_connack_packet" /\ Has("property_len") /\ pkt.property_len = 0)
          => /\ pkt.properties = <<>>
             /\ ~failed
             /\ position = RefConnack(buffer).start

(***************************************************************************)
(* C10.  A CONNECT payload decode that completes has read each optional    *)
(* section exactly when its connect-flags bit is set: bit 2 the will       *)
(* properties, topic and payload; bit 7 the username; bit 6 the password.  *)
(***************************************************************************)
C10_FlagGating ==
    (entry = "decode_control_packet" /\ pc = "done")
        => /\ (BitAnd(pkt.connect_flags, 4) # 0)
                 <=> (Has("will_property_len") /\ Has("will_topic") /\ Has("will_payload"))
           /\ (BitAnd(pkt.connect_flags, 128) # 0) <=> Has("username")
           /\ (BitAnd(pkt.connect_flags, 64) # 0) <=> Has("password")

(***************************************************************************)
(* C11.  When the fixed header's packet type is not the one the decoder    *)
(* expects (CONNECT for decode_control_packet, CONNACK for                 *)
(* decode_connack_packet), the decode aborts with DecodingError right      *)
(* after the fixed header: nothing is read or written after the mismatch.  *)
(***************************************************************************)
ExpectedType == IF entry = "decode_connack_packet" THEN Connack ELSE Connect

TypeMismatch ==
    /\ entry \in {"decode_connack_packet", "decode_control_packet"}
    /\ Has("remain_len")
    /\ PacketType_from(pkt.fixed_header) # ExpectedType

C11_TypeMismatchAborts ==
    TypeMismatch => /\ log = <<"fixed_header", "remain_len">>
                    /\ Outcome = "DecodingError"

(***************************************************************************)
(* C12.  A failed sub-read short-circuits the enclosing decode: once a     *)
(* property decode in a property loop, or a string, binary or variable-    *)
(* byte-integer read, has failed during a CONNECT or CONNACK decode, the   *)
(* decode has ended with an error result for its caller; it is not logged  *)
(* and continued past, and it does not abort the process.                  *)
(***************************************************************************)
SubReadFailed == failed \/ Has("Err")

C12_FailedSubReadShortCircuits ==
    (entry \in {"decode_connack_packet", "decode_control_packet"} /\ SubReadFailed)
        => /\ Ended
           /\ Outcome = "Error"

(***************************************************************************)
(* C13.  A property list never holds more than its capacity (18 packet     *)
(* properties, 7 will properties), and no decoded property is silently     *)
(* dropped: when a section holds more properties than the list can take,   *)
(* the decode fails with a capacity-exceeded error.                        *)
(***************************************************************************)
Decoded == Cardinality({i \in 1..Len(log) : log[i] = "property"})
Stored == Len(pkt.properties) + Len(pkt.will_properties)

C13_CapacityExceededIsError ==
    /\ Len(pkt.properties) <= MAX_PROPERTIES
    /\ Len(pkt.will_properties) <= MAX_WILL_PROPERTIES
    /\ (Decoded > Stored) => Outcome = "Error"

(***************************************************************************)
(* C14.  The CONNECT packet with protocol name "MQTT", version 5, connect  *)
(* flags 0x02, keep-alive 60, no properties and client id "abc" decodes:   *)
(* the variable-header fields are read in wire order, the decode returns,  *)
(* client_id is "abc", and will topic, will payload, will properties,      *)
(* username and password are left as constructed.                          *)
(***************************************************************************)
ConnectWireOrder ==
    <<"fixed_header", "remain_len", "protocol_name_len", "protocol_name",
      "protocol_version", "connect_flags", "keep_alive", "property_len", "client_id">>

IsPrefix(s, t) == Len(s) <= Len(t) /\ SubSeq(t, 1, Len(s)) = s

C14_ConnectAbcDecodes ==
    (entry = "decode_control_packet" /\ buffer = ConnectAbc)
        => /\ IsPrefix(log, ConnectWireOrder)
           /\ Ended =>
                /\ pc = "done"
                /\ log = ConnectWireOrder
                /\ pkt.protocol_name_len = 4
                /\ pkt.protocol_name = <<77 * 256 + 81, 84 * 256 + 84>>
                /\ pkt.protocol_version = 5
                /\ pkt.connect_flags = 2
                /\ pkt.keep_alive = 60
                /\ pkt.property_len = 0
                /\ pkt.properties = <<>>
                /\ pkt.client_id.len = 3
                /\ pkt.client_id.view_len = 3
                /\ Slice(buffer, pkt.client_id.from, pkt.client_id.from + 3) = <<97, 98, 99>>
                /\ pkt.will_properties = <<>>
                /\ pkt.will_topic = EncodedString_new
                /\ pkt.will_payload = BinaryData_new
                /\ pkt.username = EncodedString_new
                /\ pkt.password = BinaryData_new

(***************************************************************************)
(* C15.  Every EncodedString and BinaryData the code constructs, by new()  *)
(* (the fields of a fresh packet) or by read_string / read_binary (a       *)
(* caller's read, or a packet field read in a decode), has a view whose    *)
(* byte length equals its len field, and an EncodedString's view is        *)
(* well-formed UTF-8.                                                      *)
(***************************************************************************)
StringFields == {"client_id", "will_topic", "username"}

\* The bytes of a view record: those of the buffer it borrows, none for the
\* static "" of EncodedString::new.
ViewBytes(v) == IF v.from < 0 THEN <<>> ELSE Slice(buffer, v.from, v.from + v.view_len)

\* The entries that work on a ControlPacket, which has the view fields.
OnControlPacket == entry \in {"decode_control_packet", "decode_will_properties"}

C15_ViewLengthEqualsLen ==
    /\ OnControlPacket =>
          /\ \A f \in ViewFields : pkt[f].view_len = pkt[f].len
          /\ \A f \in StringFields : from_utf8_ok(ViewBytes(pkt[f]))
    /\ (last.op \in {"read_string", "read_binary"} /\ last.r.res = "Ok") =>
          /\ last.r.views[1][2] - last.r.views[1][1] = last.r.val
          /\ last.op = "read_string" =>
                from_utf8_ok(Slice(buffer, last.r.views[1][1], last.r.views[1][2]))

(***************************************************************************)
(* C16.  For every declared length L in 0..65535 the encoded-size helper   *)
(* of EncodedString and of BinaryData returns exactly L + 2, and that of   *)
(* StringPair exactly the sum of its members' encoded sizes: no call       *)
(* overflows 16 bits or wraps around.  Checked under CallSpec.             *)
(***************************************************************************)
C16_EncodedSizeIsExact ==
    /\ last.op \in {"EncodedString::len", "BinaryData::len"} =>
          /\ last.r.res = "Ok"
          /\ last.r.val = last.args[1] + 2
    /\ last.op = "StringPair::len" =>
          /\ last.r.res = "Ok"
          /\ last.r.val = (last.args[1] + 2) + (last.args[2] + 2)

(***************************************************************************)
(* C17.  addFlags on a packet whose type is not PUBLISH reports an error   *)
(* and leaves fixed_header as it was; on a PUBLISH packet it keeps the     *)
(* high nibble and sets the low nibble to DUP (bit 3), QoS 0..2 (bits      *)
(* 2-1) and RETAIN (bit 0), whatever flag bits were there before.          *)
(* Checked under CallSpec.                                                 *)
(***************************************************************************)
Bit(b) == IF b THEN 1 ELSE 0

C17_AddFlags ==
    last.op = "addFlags" =>
        LET before == last.start
            dup == last.args[1]
            qos == last.args[2]
            retain == last.args[3]
        IN  IF before \div 16 # Publish
            THEN pkt.fixed_header = before /\ log = <<"error">>
            ELSE /\ log = <<>>
                 /\ pkt.fixed_header \div 16 = Publish
                 /\ qos \in 0..2 =>
                       pkt.fixed_header % 16 = 8 * Bit(dup) + 2 * qos + Bit(retain)

\* A PUBLISH packet with all four flag bits set, given DUP off, QoS 1, RETAIN
\* off: the low nibble is now 0010.
C17_Witness ==
    /\ last.op = "addFlags"
    /\ last.start = 63
    /\ last.args = <<FALSE, 1, FALSE>>
    /\ pkt.fixed_header = 50

(***************************************************************************)
(* C18.  addPacketType replaces the packet type in fixed_header and keeps  *)
(* the flag bits: after the call the low nibble is what it was, and the    *)
(* high nibble is the new type, with no bit of the previous type left.     *)
(* Checked under CallSpec.                                                 *)
(***************************************************************************)
C18_AddPacketType ==
    last.op = "addPacketType" =>
        /\ pkt.fixed_header % 16 = last.start % 16
        /\ pkt.fixed_header \div 16 = last.args[1]

\* A packet of type 15 with flags 0101 made a CONNACK.
C18_Witness ==
    /\ last.op = "addPacketType"
    /\ last.start = 245
    /\ last.args = <<Connack>>
    /\ pkt.fixed_header = 37

(***************************************************************************)
(* C19.  A read that returns an error leaves the cursor where it was       *)
(* before the call: read_string failing with Utf8Error, and                *)
(* read_string_pair failing on its value after its name was read, do not   *)
(* leave the cursor past the bytes they had consumed.                      *)
(***************************************************************************)
C19_FailedReadKeepsCursor ==
    (entry = "reader" /\ last.op # "none" /\ last.r.res = "Err") => position = last.start

(***************************************************************************)
(* C20.  A CONNECT or CONNACK decode never reads past the end of the       *)
(* packet that its remaining length declares: once the fixed header has    *)
(* been read, the cursor is at most the end of the fixed header plus       *)
(* remain_len, whatever lengths the packet body declares.                  *)
(***************************************************************************)
\* The end of the fixed header by the wire format, and the packet's end.
FixedHeaderEnd == 1 + VarIntTrueLen(buffer, 1)
PacketEnd == FixedHeaderEnd + VarIntTrueVal(buffer, 1)

C20_CursorWithinRemainingLength ==
    (entry \in {"decode_connack_packet", "decode_control_packet"} /\ Has("remain_len"))
        => position <= PacketEnd

====
